---------------------------- MODULE Spec2Model ----------------------------
(***************************************************************************)
(* agent-deployer: the command-line entry point (agent_deployer/cli.py)    *)
(* and the deployment routine (agent_deployer/deploy.py).                  *)
(*                                                                         *)
(* Texts are TLA+ strings; a rendered template is the sequence of its      *)
(* segments (literal text and substituted values), whose concatenation is  *)
(* the file content.  A path is a record [abs, parts]; a line of an        *)
(* environment file is a sequence of one-character strings.                *)
(***************************************************************************)
EXTENDS Integers, Sequences, FiniteSets, TLC

VARIABLES
    req,        \* the arguments of the run (argparse namespace / deploy_api parameters)
    entry,      \* "cli": the run enters through main; "api": deploy_api is called directly
    host,       \* the host: packages, certificates, files, service state
    pc,         \* position of the run: "start", "deps", "venv", "deploy", "exit"
    log,        \* the events of the current run, in execution order
    exitcode,   \* -1 while running; main's return/exit code; for "api": 0 returned, 1 raised
    err,        \* "none" or the kind of the error that ended the run
    run,        \* number of the current run on this host (re-runs use the same req)
    first,      \* the host and the outcome as the first run left them
    deps,       \* what the last check_dependencies call of the run saw and returned
    out         \* result of the composer under study in the composer specifications

vars == <<req, entry, host, pc, log, exitcode, err, run, first, deps, out>>

-----------------------------------------------------------------------------
(* Bounds of the model *)

\* number of runs of the orchestration on one host
MaxRuns == 2
\* lines of an enumerated environment file
MaxLines == 2
\* worker counts 1..MaxWorkers
MaxWorkers == 3

-----------------------------------------------------------------------------
(* Texts *)

Digit == <<"0", "1", "2", "3", "4", "5", "6", "7", "8", "9">>

\* str(n) of a Python int, as the f-strings and Template.substitute apply it
RECURSIVE IntToStr(_)
IntToStr(n) ==
    IF n < 0 THEN "-" \o IntToStr(0 - n)
    ELSE IF n < 10 THEN Digit[n + 1]
    ELSE IntToStr(n \div 10) \o Digit[(n % 10) + 1]

\* the text of a sequence of texts, with sep between them
RECURSIVE Join(_, _)
Join(ss, sep) ==
    IF ss = <<>> THEN ""
    ELSE IF Len(ss) = 1 THEN ss[1]
    ELSE ss[1] \o sep \o Join(Tail(ss), sep)

-----------------------------------------------------------------------------
(* Paths: os.path on a POSIX host *)

\* the working directory of the process
Cwd == <<"srv">>

NoPath == [abs |-> FALSE, parts |-> <<>>]

\* os.path.normpath on the components: "." is dropped, ".." removes the
\* component before it (and is dropped at the root)
RECURSIVE Norm(_, _)
Norm(parts, acc) ==
    IF parts = <<>> THEN acc
    ELSE IF parts[1] = "." THEN Norm(Tail(parts), acc)
    ELSE IF parts[1] = ".."
         THEN Norm(Tail(parts), IF acc = <<>> THEN acc ELSE SubSeq(acc, 1, Len(acc) - 1))
    ELSE Norm(Tail(parts), Append(acc, parts[1]))

abspath(p) ==
    [abs |-> TRUE, parts |-> Norm(IF p.abs THEN p.parts ELSE Cwd \o p.parts, <<>>)]

\* the path as the text the caller gave or abspath returned
PathStr(p) == IF p.abs THEN "/" \o Join(p.parts, "/") ELSE Join(p.parts, "/")

\* os.path.join(p, name) for a relative one-component name
join(p, name) == [abs |-> p.abs, parts |-> Append(p.parts, name)]

\* os.path.basename: the text after the last "/"
basename(p) == IF p.parts = <<>> THEN "" ELSE p.parts[Len(p.parts)]

\* the directories of the host
HostDirs ==
    { <<>>, <<"srv">>, <<"srv", "app">>, <<"srv", "app", "venv">>,
      <<"srv", "app", "dist">>, <<"srv", "bare">> }

isdir(p) == abspath(p).parts \in HostDirs

-----------------------------------------------------------------------------
(* Templates: string.Template *)

L(s) == [k |-> "lit", v |-> s]
V(s) == [k |-> "var", v |-> s]

SYSTEMD_TEMPLATE ==
    << L("[Unit]\nDescription="),
       V("service_name"),
       L(" service\nAfter=network.target\n\n[Service]\nUser="),
       V("user"),
       L("\nGroup="),
       V("group"),
       L("\nWorkingDirectory="),
       V("project_path"),
       L("\nExecStart="),
       V("exec_start"),
       L("\nRestart=always\nRestartSec=5\nEnvironment=PATH="),
       V("venv_path"),
       L("/bin:"),
       V("PATH"),
       L("\n"),
       V("environment_vars"),
       L("\n\n[Install]\nWantedBy=multi-user.target\n") >>

NGINX_TEMPLATE ==
    << L("server {\n    listen 80;\n    server_name "),
       V("domain"),
       L(";\n\n    location / {\n        proxy_pass http://localhost:"),
       V("port"),
       L(";\n        proxy_set_header Host "),
       V("host"),
       L(";\n        proxy_set_header X-Real-IP "),
       V("remote_addr"),
       L(";\n        proxy_set_header X-Forwarded-For "),
       V("proxy_add_x_forwarded_for"),
       L(";\n        proxy_set_header X-Forwarded-Proto "),
       V("scheme"),
       L(";\n    }\n}\n") >>

NGINX_SSL_TEMPLATE ==
    << L("server {\n    listen 80;\n    server_name "),
       V("domain"),
       L(";\n    return 301 https://"),
       V("domain"),
       V("request_uri"),
       L(";\n}\n\nserver {\n    listen 443 ssl;\n    server_name "),
       V("domain"),
       L(";\n\n    ssl_certificate /etc/letsencrypt/live/"),
       V("domain"),
       L("/fullchain.pem;\n    ssl_certificate_key /etc/letsencrypt/live/"),
       V("domain"),
       L("/privkey.pem;\n    ssl_protocols TLSv1.2 TLSv1.3;\n    ssl_prefer_server_ciphers on;\n    ssl_ciphers ECDHE-RSA-AES256-GCM-SHA512:DHE-RSA-AES256-GCM-SHA512:ECDHE-RSA-AES256-GCM-SHA384:DHE-RSA-AES256-GCM-SHA384;\n\n    location / {\n        proxy_pass http://localhost:"),
       V("port"),
       L(";\n        proxy_set_header Host "),
       V("host"),
       L(";\n        proxy_set_header X-Real-IP "),
       V("remote_addr"),
       L(";\n        proxy_set_header X-Forwarded-For "),
       V("proxy_add_x_forwarded_for"),
       L(";\n        proxy_set_header X-Forwarded-Proto "),
       V("scheme"),
       L(";\n    }\n}\n") >>

NGINX_FRONTEND_TEMPLATE ==
    << L("server {\n    listen 80;\n    server_name "),
       V("domain"),
       L(";\n\n    # API endpoints\n    location "),
       V("api_url_prefix"),
       L("/ {\n        proxy_pass http://localhost:"),
       V("port"),
       V("api_url_prefix"),
       L("/;\n        proxy_set_header Host "),
       V("host"),
       L(";\n        proxy_set_header X-Real-IP "),
       V("remote_addr"),
       L(";\n        proxy_set_header X-Forwarded-For "),
       V("proxy_add_x_forwarded_for"),
       L(";\n        proxy_set_header X-Forwarded-Proto "),
       V("scheme"),
       L(";\n    }\n\n    # Frontend static files\n    location "),
       V("frontend_url_prefix"),
       L(" {\n        alias "),
       V("frontend_path"),
       L("/;\n        try_files "),
       V("uri"),
       L(" "),
       V("uri"),
       L("/ "),
       V("frontend_url_prefix"),
       L("/index.html;\n        expires 1d;\n        add_header Cache-Control \"public\";\n    }\n}\n") >>

NGINX_FRONTEND_SSL_TEMPLATE ==
    << L("server {\n    listen 80;\n    server_name "),
       V("domain"),
       L(";\n    return 301 https://"),
       V("domain"),
       V("request_uri"),
       L(";\n}\n\nserver {\n    listen 443 ssl;\n    server_name "),
       V("domain"),
       L(";\n\n    ssl_certificate /etc/letsencrypt/live/"),
       V("domain"),
       L("/fullchain.pem;\n    ssl_certificate_key /etc/letsencrypt/live/"),
       V("domain"),
       L("/privkey.pem;\n    ssl_protocols TLSv1.2 TLSv1.3;\n    ssl_prefer_server_ciphers on;\n    ssl_ciphers ECDHE-RSA-AES256-GCM-SHA512:DHE-RSA-AES256-GCM-SHA512:ECDHE-RSA-AES256-GCM-SHA384:DHE-RSA-AES256-GCM-SHA384;\n\n    # API endpoints\n    location "),
       V("api_url_prefix"),
       L("/ {\n        proxy_pass http://localhost:"),
       V("port"),
       V("api_url_prefix"),
       L("/;\n        proxy_set_header Host "),
       V("host"),
       L(";\n        proxy_set_header X-Real-IP "),
       V("remote_addr"),
       L(";\n        proxy_set_header X-Forwarded-For "),
       V("proxy_add_x_forwarded_for"),
       L(";\n        proxy_set_header X-Forwarded-Proto "),
       V("scheme"),
       L(";\n    }\n\n    # Frontend static files\n    location "),
       V("frontend_url_prefix"),
       L(" {\n        alias "),
       V("frontend_path"),
       L("/;\n        try_files "),
       V("uri"),
       L(" "),
       V("uri"),
       L("/ "),
       V("frontend_url_prefix"),
       L("/index.html;\n        expires 1d;\n        add_header Cache-Control \"public\";\n    }\n}\n") >>

\* the lenient rendering (Template.safe_substitute): a placeholder that map does
\* not supply is left in the text as it stands and nothing is raised
safe_substitute(tpl, map) ==
    [ok |-> TRUE, missing |-> "",
     text |-> [i \in 1..Len(tpl) |->
                 IF tpl[i].k = "lit" THEN tpl[i].v
                 ELSE IF tpl[i].v \in DOMAIN map THEN map[tpl[i].v]
                 ELSE "$" \o tpl[i].v]]

\* Template(tpl).substitute(**map): KeyError on the first placeholder that map
\* does not supply, otherwise the text with every placeholder replaced
Substitute(tpl, map) ==
    LET absent == SelectSeq(tpl, LAMBDA t : t.k = "var" /\ t.v \notin DOMAIN map)
    IN  IF absent # <<>>
        THEN [ok |-> FALSE, missing |-> absent[1].v, text |-> <<>>]
        ELSE [ok |-> TRUE, missing |-> "",
              text |-> [i \in 1..Len(tpl) |->
                          IF tpl[i].k = "lit" THEN tpl[i].v ELSE map[tpl[i].v]]]

-----------------------------------------------------------------------------
(* Environment file: deploy_api, lines 214-222 *)

Whitespace == {" ", "\t", "\n"}

RECURSIVE lstrip(_)
lstrip(line) ==
    IF line # <<>> /\ line[1] \in Whitespace THEN lstrip(Tail(line)) ELSE line

RECURSIVE rstrip(_)
rstrip(line) ==
    IF line # <<>> /\ line[Len(line)] \in Whitespace
    THEN rstrip(SubSeq(line, 1, Len(line) - 1))
    ELSE line

\* str.strip()
strip(line) == rstrip(lstrip(line))

\* str.startswith('#')
startswith(line, c) == line # <<>> /\ line[1] = c

\* str.split(c, 1): one part when c does not occur, otherwise the text before
\* the first c and everything after it
RECURSIVE split1(_, _, _)
split1(line, c, before) ==
    IF line = <<>> THEN <<before>>
    ELSE IF line[1] = c THEN <<before, Tail(line)>>
    ELSE split1(Tail(line), c, Append(before, line[1]))

\* the text of a sequence of characters
RECURSIVE Text(_)
Text(cs) == IF cs = <<>> THEN "" ELSE cs[1] \o Text(Tail(cs))

\* the loop over the lines of the file: the directives collected so far, or
\* ValueError when the tuple assignment key, value = ... gets one part
RECURSIVE parse_env(_, _)
parse_env(lines, acc) ==
    IF lines = <<>> THEN [ok |-> TRUE, directives |-> acc]
    ELSE LET line == lines[1]
         IN  IF strip(line) # <<>> /\ ~startswith(line, "#")
             THEN LET kv == split1(strip(line), "=", <<>>)
                  IN  IF Len(kv) # 2
                      THEN [ok |-> FALSE, directives |-> acc]
                      ELSE parse_env(Tail(lines),
                                     Append(acc, [key |-> kv[1], value |-> kv[2]]))
             ELSE parse_env(Tail(lines), acc)

\* the f-string  Environment="{key}={value}"\n  of each directive, concatenated
RECURSIVE environment_vars(_)
environment_vars(ds) ==
    IF ds = <<>> THEN ""
    ELSE "Environment=\"" \o Text(ds[1].key) \o "=" \o Text(ds[1].value) \o "\"\n"
         \o environment_vars(Tail(ds))

\* env_file and os.path.isfile(os.path.join(project_path, env_file)): the
\* project directory /srv/app holds the file .env, no other directory does
has_env_file(r, h) ==
    /\ r.env_file = ".env"
    /\ abspath(r.project_path).parts = <<"srv", "app">>
    /\ h.envfile.present

load_env(r, h) ==
    IF has_env_file(r, h) THEN parse_env(h.envfile.lines, <<>>)
    ELSE [ok |-> TRUE, directives |-> <<>>]

-----------------------------------------------------------------------------
(* Unit Composer: _get_exec_start and deploy_api, lines 224-238 *)

SupportedFrameworks == {"fastapi", "flask", "django"}

\* _get_exec_start with the last branch taken for every other framework
_get_exec_start_fallthrough(framework, project_path, venv_path, port, workers, timeout) ==
    IF framework = "fastapi"
    THEN [ok |-> TRUE,
          cmd |-> venv_path \o "/bin/uvicorn main:app --host 0.0.0.0 --port "
                  \o IntToStr(port) \o " --workers " \o IntToStr(workers)
                  \o " --timeout-keep-alive " \o IntToStr(timeout)]
    ELSE IF framework = "flask"
    THEN [ok |-> TRUE,
          cmd |-> venv_path \o "/bin/gunicorn -w " \o IntToStr(workers)
                  \o " -b 0.0.0.0:" \o IntToStr(port)
                  \o " -t " \o IntToStr(timeout) \o " app:app"]
    ELSE [ok |-> TRUE,
          cmd |-> venv_path \o "/bin/gunicorn -w " \o IntToStr(workers)
                  \o " -b 0.0.0.0:" \o IntToStr(port)
                  \o " -t " \o IntToStr(timeout) \o " "
                  \o basename(project_path) \o ".wsgi:application"]

_get_exec_start(framework, project_path, venv_path, port, workers, timeout) ==
    IF framework = "fastapi"
    THEN [ok |-> TRUE,
          cmd |-> venv_path \o "/bin/uvicorn main:app --host 0.0.0.0 --port "
                  \o IntToStr(port) \o " --workers " \o IntToStr(workers)
                  \o " --timeout-keep-alive " \o IntToStr(timeout)]
    ELSE IF framework = "flask"
    THEN [ok |-> TRUE,
          cmd |-> venv_path \o "/bin/gunicorn -w " \o IntToStr(workers)
                  \o " -b 0.0.0.0:" \o IntToStr(port)
                  \o " -t " \o IntToStr(timeout) \o " app:app"]
    ELSE IF framework = "django"
    THEN [ok |-> TRUE,
          cmd |-> venv_path \o "/bin/gunicorn -w " \o IntToStr(workers)
                  \o " -b 0.0.0.0:" \o IntToStr(port)
                  \o " -t " \o IntToStr(timeout) \o " "
                  \o basename(project_path) \o ".wsgi:application"]
    ELSE [ok |-> FALSE, cmd |-> ""]

\* the seven keywords of the substitute call, lines 231-237
UnitKeys(r, user, group, exec_start, env_text) ==
    [service_name |-> r.service_name,
     user |-> user,
     group |-> group,
     project_path |-> PathStr(abspath(r.project_path)),
     exec_start |-> exec_start,
     venv_path |-> PathStr(join(abspath(r.project_path), r.venv_name)),
     environment_vars |-> env_text]

\* Template(SYSTEMD_TEMPLATE).substitute(...) with the seven keywords of the call
render_unit(r, user, group, exec_start, env_text) ==
    Substitute(SYSTEMD_TEMPLATE, UnitKeys(r, user, group, exec_start, env_text))

-----------------------------------------------------------------------------
(* Proxy Composer: deploy_api, lines 261-299 *)

\* frontend_path and os.path.isdir(frontend_path)
has_frontend(r) == r.frontend_path # NoPath /\ isdir(r.frontend_path)

FrontendKeys(r) ==
    [domain |-> r.domain,
     port |-> IntToStr(r.port),
     frontend_path |-> PathStr(abspath(r.frontend_path)),
     api_url_prefix |-> r.api_url_prefix,
     frontend_url_prefix |-> r.frontend_url_prefix]

ApiKeys(r) == [domain |-> r.domain, port |-> IntToStr(r.port)]

\* the template selected and its rendering
render_proxy(r, ssl_exists) ==
    IF has_frontend(r)
    THEN IF ssl_exists
         THEN [variant |-> "NGINX_FRONTEND_SSL_TEMPLATE",
               res |-> Substitute(NGINX_FRONTEND_SSL_TEMPLATE, FrontendKeys(r))]
         ELSE [variant |-> "NGINX_FRONTEND_TEMPLATE",
               res |-> Substitute(NGINX_FRONTEND_TEMPLATE, FrontendKeys(r))]
    ELSE IF ssl_exists
         THEN [variant |-> "NGINX_SSL_TEMPLATE",
               res |-> Substitute(NGINX_SSL_TEMPLATE, ApiKeys(r))]
         ELSE [variant |-> "NGINX_TEMPLATE",
               res |-> Substitute(NGINX_TEMPLATE, ApiKeys(r))]

-----------------------------------------------------------------------------
(* Command Executor and the events of a run *)

\* an event of a run: the orchestration step it belongs to, its kind ("cmd":
\* an external command, "file": a file write of the process itself, "py": an
\* in-process check or computation, "prompt": the confirmation prompt), what
\* ran, the exit code (0, non-zero, or -1 when no process could be spawned)
\* and its argument list where the model needs it
Ev(step, kind, op, rc, arg) ==
    [step |-> step, kind |-> kind, op |-> op, rc |-> rc, arg |-> arg]

\* the commands deploy_api runs through _run_command
ExecutorCommands ==
    { "whoami", "id -gn", "sudo mv unit", "sudo chmod 644 unit",
      "sudo test -d live", "sudo mv nginx", "sudo chmod 644 nginx", "sudo ln -s",
      "sudo nginx -t", "sudo systemctl reload nginx", "sudo certbot --nginx",
      "sudo systemctl daemon-reload", "sudo systemctl enable",
      "sudo systemctl restart", "sudo systemctl status" }

\* the commands check_dependencies runs with check=True
InstallCommands == { "sudo apt-get update", "sudo apt-get install" }

\* the state threaded through deploy_api: the host, the events so far, the
\* exception raised ("none" while running), and the locals later steps read
S0(h) ==
    [host |-> h, log |-> <<>>, err |-> "none",
     content |-> <<>>, ssl_exists |-> FALSE]

\* _run_command without the check of the exit code: the failure goes unnoticed
_run_command_unchecked(s, step, op, e) ==
    IF s.err # "none" THEN s
    ELSE [s EXCEPT !.log = Append(@, Ev(step, "cmd", op,
                                        IF op \in e.fail THEN 1 ELSE 0, <<>>))]

\* _run_command: the command runs (an event); a non-zero exit code raises
\* RuntimeError.  A state that already carries an exception passes through:
\* the statement is never reached.
_run_command(s, step, op, e) ==
    IF s.err # "none" THEN s
    ELSE LET rc == IF op \in e.fail THEN 1 ELSE 0
             s1 == [s EXCEPT !.log = Append(@, Ev(step, "cmd", op, rc, <<>>))]
         IN  IF rc # 0 THEN [s1 EXCEPT !.err = "RuntimeError"] ELSE s1

\* tempfile.NamedTemporaryFile(mode='w', delete=False) and tmp.write(content)
write_tmp(s, step) ==
    IF s.err # "none" THEN s
    ELSE [s EXCEPT !.log = Append(@, Ev(step, "file", "NamedTemporaryFile", 0, <<>>)),
                   !.host.tmp = @ + 1]

-----------------------------------------------------------------------------
(* deploy_api, step by step *)

\* lines 203-205
validate(s, r) ==
    LET ok == isdir(abspath(r.project_path))
        s1 == [s EXCEPT !.log = Append(@, Ev("validate", "py", "os.path.isdir",
                                             IF ok THEN 0 ELSE 1, <<>>))]
    IN  IF ok THEN s1 ELSE [s1 EXCEPT !.err = "ValueError: project path"]

\* lines 211-212
resolve_identity(s, e) ==
    _run_command(_run_command(s, "resolve-identity", "whoami", e),
                 "resolve-identity", "id -gn", e)

\* lines 215-238, without the events: the exception raised ("none": none), the
\* directives read, the launch command line and the rendered unit
compose_unit(r, h, user, group) ==
    LET envs == load_env(r, h)
        venv_path == PathStr(join(abspath(r.project_path), r.venv_name))
        exec == _get_exec_start(r.framework, abspath(r.project_path), venv_path,
                                r.port, r.workers, r.timeout)
        unit == render_unit(r, user, group, exec.cmd, environment_vars(envs.directives))
    IN  IF ~envs.ok
        THEN [err |-> "ValueError: unpack", reached |-> 1, directives |-> envs.directives,
              exec_start |-> "", text |-> <<>>]
        ELSE IF ~exec.ok
        THEN [err |-> "ValueError: unsupported framework", reached |-> 2,
              directives |-> envs.directives, exec_start |-> "", text |-> <<>>]
        ELSE IF ~unit.ok
        THEN [err |-> "KeyError", reached |-> 3, directives |-> envs.directives,
              exec_start |-> exec.cmd, text |-> <<>>]
        ELSE [err |-> "none", reached |-> 3, directives |-> envs.directives,
              exec_start |-> exec.cmd, text |-> unit.text]

\* the three computations of build-unit, in order, as events: each one reached
\* is logged, the one that raised with a non-zero code
UnitEvents(c) ==
    LET ops == <<"load env", "_get_exec_start", "substitute">>
    IN  [i \in 1..c.reached |->
           Ev("build-unit", "py", ops[i],
              IF i = c.reached /\ c.err # "none" THEN 1 ELSE 0, <<>>)]

\* lines 215-238
build_unit(s, r, e) ==
    IF s.err # "none" THEN s
    ELSE LET c == compose_unit(r, s.host, e.user, e.group)
         IN  [s EXCEPT !.log = @ \o UnitEvents(c), !.err = c.err, !.content = c.text]

\* lines 244-249
write_unit(s, e) ==
    LET s1 == write_tmp(s, "write-unit")
        s2 == _run_command(s1, "write-unit", "sudo mv unit", e)
        s3 == IF s2.err = "none"
              THEN [s2 EXCEPT !.host.unit = s.content, !.host.tmp = @ - 1]
              ELSE s2
    IN  _run_command(s3, "write-unit", "sudo chmod 644 unit", e)

\* lines 259-299
build_proxy(s, r, e) ==
    LET s1 == _run_command(s, "build-proxy", "sudo test -d live", e)
    IN  IF s1.err # "none" THEN s1
        ELSE LET ssl == r.domain \in s1.host.certs
                 proxy == render_proxy(r, ssl)
                 s2 == [s1 EXCEPT !.ssl_exists = ssl,
                                  !.log = Append(@, Ev("build-proxy", "py", "substitute",
                                                       IF proxy.res.ok THEN 0 ELSE 1,
                                                       <<proxy.variant>>))]
             IN  IF ~proxy.res.ok THEN [s2 EXCEPT !.err = "KeyError"]
                 ELSE [s2 EXCEPT !.content = proxy.res.text]

\* lines 303-308
write_proxy(s, e) ==
    LET s1 == write_tmp(s, "write-proxy")
        s2 == _run_command(s1, "write-proxy", "sudo mv nginx", e)
        s3 == IF s2.err = "none"
              THEN [s2 EXCEPT !.host.nginx = s.content, !.host.tmp = @ - 1]
              ELSE s2
    IN  _run_command(s3, "write-proxy", "sudo chmod 644 nginx", e)

\* lines 311-314
enable_site(s, e) ==
    IF s.err # "none" \/ s.host.link THEN s
    ELSE LET s1 == _run_command(s, "enable-site", "sudo ln -s", e)
         IN  IF s1.err = "none" THEN [s1 EXCEPT !.host.link = TRUE] ELSE s1

\* lines 318-319
reload_proxy(s, e) ==
    _run_command(_run_command(s, "validate-proxy-syntax", "sudo nginx -t", e),
                 "reload-proxy", "sudo systemctl reload nginx", e)

\* lines 322-325
acquire_cert(s, r, e) ==
    IF s.err # "none" \/ ~(r.domain # "" /\ ~s.ssl_exists) THEN s
    ELSE LET s1 == _run_command(s, "acquire-cert", "sudo certbot --nginx", e)
         IN  IF s1.err = "none" THEN [s1 EXCEPT !.host.certs = @ \cup {r.domain}]
             ELSE s1

\* lines 253-325
proxy_block(s, r, e) ==
    IF s.err # "none" \/ r.domain = "" THEN s
    ELSE acquire_cert(reload_proxy(enable_site(write_proxy(build_proxy(s, r, e), e), e), e),
                      r, e)

\* lines 329-331
start_service(s, e) ==
    LET s1 == _run_command(s, "enable-and-start-service", "sudo systemctl daemon-reload", e)
        s2 == _run_command(s1, "enable-and-start-service", "sudo systemctl enable", e)
        s3 == IF s2.err = "none" THEN [s2 EXCEPT !.host.svc.enabled = TRUE] ELSE s2
        s4 == _run_command(s3, "enable-and-start-service", "sudo systemctl restart", e)
    IN  IF s4.err = "none" THEN [s4 EXCEPT !.host.svc.active = TRUE] ELSE s4

\* line 337
report_status(s, e) == _run_command(s, "report-status", "sudo systemctl status", e)

\* deploy_api(r) on host h in environment e: the host it leaves, the events and
\* the exception raised ("none": it returned)
deploy_api(r, h, e) ==
    report_status(
      start_service(
        proxy_block(
          write_unit(
            build_unit(
              resolve_identity(validate(S0(h), r), e),
              r, e),
            e),
          r, e),
        e),
      e)

-----------------------------------------------------------------------------
(* Dependency Checker: check_dependencies, cli.py lines 16-70 *)

\* required_packages, in iteration order
RequiredPackages == <<"nginx", "certbot", "python3-certbot-nginx">>

\* probe with the exit code deciding for every package
probe_by_exit_code(pkg, h, e) ==
    LET op == IF pkg = "nginx" THEN "nginx -v"
              ELSE IF pkg = "certbot" THEN "certbot --version" ELSE "dpkg -l"
        rc == IF pkg \notin h.pkgs THEN (IF op = "dpkg -l" THEN 1 ELSE -1)
              ELSE IF op = "dpkg -l" THEN 0 ELSE e.probe_rc
    IN  [ev |-> Ev("check-deps", "cmd", op, rc, IF op = "dpkg -l" THEN <<pkg>> ELSE <<>>),
         missing |-> rc # 0]

\* the probe of one package: its event and whether it is appended to
\* missing_packages.  nginx and certbot are run with check=False and only a
\* binary that is not found (FileNotFoundError) counts; for the plugin the exit
\* code of dpkg -l decides.
probe(pkg, h, e) ==
    IF pkg = "nginx"
    THEN IF pkg \in h.pkgs
         THEN [ev |-> Ev("check-deps", "cmd", "nginx -v", e.probe_rc, <<>>), missing |-> FALSE]
         ELSE [ev |-> Ev("check-deps", "cmd", "nginx -v", -1, <<>>), missing |-> TRUE]
    ELSE IF pkg = "certbot"
    THEN IF pkg \in h.pkgs
         THEN [ev |-> Ev("check-deps", "cmd", "certbot --version", e.probe_rc, <<>>),
               missing |-> FALSE]
         ELSE [ev |-> Ev("check-deps", "cmd", "certbot --version", -1, <<>>),
               missing |-> TRUE]
    ELSE LET rc == IF pkg \in h.pkgs THEN 0 ELSE 1
         IN  [ev |-> Ev("check-deps", "cmd", "dpkg -l", rc, <<pkg>>), missing |-> rc # 0]

\* the loop of lines 28-47 over the packages from index i on
RECURSIVE probe_all(_, _, _, _)
probe_all(i, h, e, acc) ==
    IF i > Len(RequiredPackages) THEN acc
    ELSE LET p == probe(RequiredPackages[i], h, e)
         IN  probe_all(i + 1, h, e,
                       [log |-> Append(acc.log, p.ev),
                        missing |-> IF p.missing
                                    THEN Append(acc.missing, RequiredPackages[i])
                                    ELSE acc.missing])

\* str.lower() on the characters the answers use
lower(cs) == [i \in 1..Len(cs) |-> IF cs[i] = "Y" THEN "y" ELSE IF cs[i] = "N" THEN "n" ELSE cs[i]]

\* subprocess.run([...], check=True) of the install branch: the event, and
\* CalledProcessError on a non-zero exit code
apt(op, arg, e) == Ev("check-deps", "cmd", op, IF op \in e.fail THEN 1 ELSE 0, arg)

Range(f) == {f[i] : i \in DOMAIN f}

\* check_dependencies on host h: the value returned, the host it leaves, its
\* events, the missing packages and whether it prompted
check_dependencies(h, e) ==
    LET p == probe_all(1, h, e, [log |-> <<>>, missing |-> <<>>])
        ask == Ev("check-deps", "prompt", "input", 0, <<Text(e.answer)>>)
        update == apt("sudo apt-get update", <<>>, e)
        install == apt("sudo apt-get install", p.missing, e)
    IN  IF p.missing = <<>>
        THEN [ret |-> TRUE, host |-> h, log |-> p.log, missing |-> p.missing,
              prompted |-> FALSE]
        ELSE IF strip(lower(e.answer)) # <<"y">>
        THEN [ret |-> FALSE, host |-> h, log |-> Append(p.log, ask),
              missing |-> p.missing, prompted |-> TRUE]
        ELSE IF update.rc # 0
        THEN [ret |-> FALSE, host |-> h, log |-> p.log \o <<ask, update>>,
              missing |-> p.missing, prompted |-> TRUE]
        ELSE IF install.rc # 0
        THEN [ret |-> FALSE, host |-> h, log |-> p.log \o <<ask, update, install>>,
              missing |-> p.missing, prompted |-> TRUE]
        ELSE [ret |-> TRUE, host |-> [h EXCEPT !.pkgs = @ \cup Range(p.missing)],
              log |-> p.log \o <<ask, update, install>>,
              missing |-> p.missing, prompted |-> TRUE]

-----------------------------------------------------------------------------
(* The environment of a run and the requests *)

\* which command exits non-zero when it is run: none, or one of them (the
\* first failure ends the run, so a second one would never be run)
FailSets == {{}} \cup {{c} : c \in ExecutorCommands}

InstallFailSets == {{}} \cup {{c} : c \in InstallCommands}

\* what the user types at the prompt
Answers == { <<"y">>, <<" ", "Y">>, <<"n">> }

\* the addresses hostname -I prints
IpLists == { <<>>, <<"10.0.0.5">> }

Env(fail, answer, probe_rc, ips) ==
    [fail |-> fail, answer |-> answer, probe_rc |-> probe_rc, ips |-> ips,
     user |-> "deploy", group |-> "deploy"]

\* the lines of the environment files, each with its line terminator
LnA1 == <<"A", "=", "1", "\n">>
LnComment == <<"#", " ", "c", "\n">>
LnBlank == <<"\n">>
LnSpaces == <<" ", " ", "\n">>
LnB23 == <<"B", "=", "t", "w", "o", "=", "t", "h", "r", "e", "e", "\n">>
LnPadded == <<" ", "A", "=", "1", " ", "\n">>
LnNoEq == <<"F", "O", "O", "\n">>
LnEmptyValue == <<"A", "=", "\n">>
LnIndentedComment == <<" ", "#", "c", "\n">>

EnvLines ==
    { LnA1, LnComment, LnBlank, LnSpaces, LnB23, LnPadded, LnNoEq, LnEmptyValue,
      LnIndentedComment }

\* the file of the example: A=1, a comment, a blank line, B=two=three
ExampleEnv == <<LnA1, LnComment, LnBlank, LnB23>>

BadEnv == <<LnA1, LnNoEq>>

AppAbs == [abs |-> TRUE, parts |-> <<"srv", "app">>]
AppRel == [abs |-> FALSE, parts |-> <<".", "app">>]
Ghost == [abs |-> TRUE, parts |-> <<"srv", "ghost">>]
Bare == [abs |-> TRUE, parts |-> <<"srv", "bare">>]
DistAbs == [abs |-> TRUE, parts |-> <<"srv", "app", "dist">>]
DistRel == [abs |-> FALSE, parts |-> <<".", "app", "dist">>]
NoDist == [abs |-> TRUE, parts |-> <<"srv", "nodist">>]

Frameworks == SupportedFrameworks \cup {"rails"}

\* the requests of the orchestration runs: the command line's defaults for the
\* worker count and the timeouts
Requests ==
    [project_path : {AppAbs, AppRel, Ghost, Bare},
     service_name : {"myapi"},
     framework : Frameworks,
     workers : {2}, timeout : {120}, port : {8000},
     venv_name : {"venv"},
     domain : {"", "example.com"},
     env_file : {"", ".env"},
     frontend_path : {DistAbs},
     frontend_url_prefix : {"/"},
     api_url_prefix : {"/api"}]

FreshHost(pkgs, certs, lines) ==
    [pkgs |-> pkgs, certs |-> certs, envfile |-> [present |-> TRUE, lines |-> lines],
     unit |-> <<>>, nginx |-> <<>>, link |-> FALSE, tmp |-> 0,
     svc |-> [enabled |-> FALSE, active |-> FALSE]]

NoDeps == [called |-> FALSE, before |-> {}, missing |-> <<>>, ret |-> FALSE,
           prompted |-> FALSE]

NoOut == [kind |-> "none"]

NoFirst == [host |-> FreshHost({}, {}, <<>>), exitcode |-> -1, err |-> "none",
            failed |-> FALSE]

-----------------------------------------------------------------------------
(* The orchestration: main, cli.py lines 72-173, and direct calls of deploy_api *)

Init ==
    /\ req \in Requests
    /\ entry \in {"cli", "api"}
    /\ \E p \in SUBSET Range(RequiredPackages), c \in SUBSET {req.domain} \ {{""}},
          l \in {ExampleEnv, BadEnv} :
         \* a direct call of deploy_api never looks at the packages; a run
         \* without --env-file never reads the file
         /\ entry = "api" => p = Range(RequiredPackages)
         /\ req.env_file = "" => l = ExampleEnv
         /\ host = FreshHost(p, c, l)
    /\ pc = "start"
    /\ log = <<>>
    /\ exitcode = -1
    /\ err = "none"
    /\ run = 1
    /\ first = NoFirst
    /\ deps = NoDeps
    /\ out = NoOut

\* parser.parse_args(), line 104: --framework outside its choices ends the
\* process with status 2 (argparse's parser.error) before the try block
ParseArgs ==
    /\ pc = "start" /\ entry = "cli"
    /\ LET ok == req.framework \in {"flask", "fastapi", "django"}
       IN  /\ log' = Append(log, Ev("parse-args", "py", "parse_args", IF ok THEN 0 ELSE 2, <<>>))
           /\ pc' = IF ok THEN "deps" ELSE "exit"
           /\ exitcode' = IF ok THEN exitcode ELSE 2
           /\ err' = IF ok THEN err ELSE "SystemExit: invalid choice"
    /\ UNCHANGED <<req, entry, host, run, first, deps, out>>

\* lines 110-111
CheckDeps ==
    /\ pc = "deps"
    /\ \E fail \in InstallFailSets, answer \in Answers, probe_rc \in {0, 1} :
         \E c \in {check_dependencies(host, Env(fail, answer, probe_rc, <<>>))} :
             /\ host' = c.host
             /\ log' = log \o c.log
             /\ deps' = [called |-> TRUE, before |-> host.pkgs, missing |-> c.missing,
                         ret |-> c.ret, prompted |-> c.prompted]
             /\ pc' = IF c.ret THEN "venv" ELSE "exit"
             /\ exitcode' = IF c.ret THEN exitcode ELSE 1
             /\ err' = IF c.ret THEN err ELSE "dependency check failed"
    /\ UNCHANGED <<req, entry, run, first, out>>

\* lines 114-120
VenvCheck ==
    /\ pc = "venv"
    /\ LET ok == isdir(join(req.project_path, req.venv_name))
       IN  /\ log' = Append(log, Ev("validate", "py", "os.path.isdir(venv)",
                                    IF ok THEN 0 ELSE 1, <<>>))
           /\ pc' = IF ok THEN "deploy" ELSE "exit"
           /\ exitcode' = IF ok THEN exitcode ELSE 1
           /\ err' = IF ok THEN err ELSE "virtual environment not found"
    /\ UNCHANGED <<req, entry, host, run, first, deps, out>>

\* lines 122-173: deploy_api, then hostname -I, whose first address is taken
\* ([0] of an empty list raises IndexError); any exception returns 1
Deploy ==
    /\ pc = "deploy"
    /\ \E fail \in FailSets, ips \in IpLists :
         \E s \in {deploy_api(req, host, Env(fail, <<>>, 0, ips))} :
         LET hostname == Ev("summary", "cmd", "hostname -I", 0, ips)
         IN  /\ host' = s.host
             /\ log' = IF s.err = "none" THEN log \o s.log \o <<hostname>> ELSE log \o s.log
             /\ err' = IF s.err # "none" THEN s.err
                       ELSE IF ips = <<>> THEN "IndexError" ELSE "none"
             /\ exitcode' = IF s.err = "none" /\ ips # <<>> THEN 0 ELSE 1
    /\ pc' = "exit"
    /\ UNCHANGED <<req, entry, run, first, deps, out>>

\* deploy_api called as a library function, without main's checks
ApiCall ==
    /\ pc = "start" /\ entry = "api"
    /\ \E fail \in FailSets :
         \E s \in {deploy_api(req, host, Env(fail, <<>>, 0, <<>>))} :
             /\ host' = s.host
             /\ log' = log \o s.log
             /\ err' = s.err
             /\ exitcode' = IF s.err = "none" THEN 0 ELSE 1
    /\ pc' = "exit"
    /\ UNCHANGED <<req, entry, run, first, deps, out>>

\* the same request is run again on the host the run left
Rerun ==
    /\ pc = "exit" /\ run < MaxRuns
    /\ run' = run + 1
    /\ first' = IF run = 1
                THEN [host |-> host, exitcode |-> exitcode, err |-> err,
                      failed |-> \E i \in 1..Len(log) : log[i].kind = "cmd" /\ log[i].rc > 0]
                ELSE first
    /\ pc' = "start"
    /\ log' = <<>>
    /\ exitcode' = -1
    /\ err' = "none"
    /\ deps' = NoDeps
    /\ UNCHANGED <<req, entry, host, out>>

Next == ParseArgs \/ CheckDeps \/ VenvCheck \/ Deploy \/ ApiCall

Spec == Init /\ [][Next]_vars

\* the orchestration run again and again on the same host
NextRerun == Next \/ Rerun


-----------------------------------------------------------------------------
(* The composers on their own: each one applied to enumerated inputs *)

Root == [abs |-> TRUE, parts |-> <<>>]

Ports == {80, 8000}

Timeouts == {30, 120}

\* the environment files of at most MaxLines lines
EnvFiles == UNION {[1..n -> EnvLines] : n \in 0..MaxLines}

BaseRequest ==
    [project_path |-> AppAbs, service_name |-> "myapi", framework |-> "fastapi",
     workers |-> 2, timeout |-> 120, port |-> 8000, venv_name |-> "venv",
     domain |-> "", env_file |-> "", frontend_path |-> NoPath,
     frontend_url_prefix |-> "/", api_url_prefix |-> "/api"]

\* inputs of the Unit Composer
UnitRequests ==
    {[BaseRequest EXCEPT !.project_path = p, !.framework = f, !.workers = w,
                         !.timeout = t, !.port = n] :
        p \in {AppAbs, AppRel, Root}, f \in Frameworks, w \in 1..MaxWorkers,
        t \in Timeouts, n \in Ports}

\* inputs of the Proxy Composer
ProxyRequests ==
    {[BaseRequest EXCEPT !.domain = d, !.frontend_path = fp, !.port = n,
                         !.api_url_prefix = a, !.frontend_url_prefix = u] :
        d \in {"example.com", "api.example.org"},
        fp \in {NoPath, DistAbs, DistRel, NoDist}, n \in Ports,
        a \in {"/api", "/v1"}, u \in {"/", "/app"}}

InitCompose ==
    /\ \/ /\ req \in UnitRequests
          /\ host = FreshHost({}, {}, ExampleEnv)
       \/ /\ req \in ProxyRequests
          /\ \E c \in SUBSET {req.domain} : host = FreshHost({}, c, ExampleEnv)
       \/ /\ req = [BaseRequest EXCEPT !.env_file = ".env"]
          /\ \E l \in EnvFiles : host = FreshHost({}, {}, l)
    /\ entry = "api"
    /\ pc = "compose"
    /\ log = <<>>
    /\ exitcode = -1
    /\ err = "none"
    /\ run = 1
    /\ first = NoFirst
    /\ deps = NoDeps
    /\ out = NoOut

\* deploy_api, lines 215-238
ComposeUnit ==
    /\ pc = "compose"
    /\ out' = [kind |-> "unit", unit |-> compose_unit(req, host, "deploy", "deploy")]
    /\ pc' = "composed"
    /\ UNCHANGED <<req, entry, host, log, exitcode, err, run, first, deps>>

\* deploy_api, lines 259-299, for a request with a domain
ComposeProxy ==
    /\ pc = "compose" /\ req.domain # ""
    /\ LET ssl == req.domain \in host.certs
       IN  out' = [kind |-> "proxy", ssl |-> ssl, proxy |-> render_proxy(req, ssl)]
    /\ pc' = "composed"
    /\ UNCHANGED <<req, entry, host, log, exitcode, err, run, first, deps>>

\* deploy_api, lines 215-222
ComposeEnv ==
    /\ pc = "compose"
    /\ out' = [kind |-> "env", envs |-> load_env(req, host)]
    /\ pc' = "composed"
    /\ UNCHANGED <<req, entry, host, log, exitcode, err, run, first, deps>>

NextCompose == ComposeUnit \/ ComposeProxy \/ ComposeEnv

SpecCompose == InitCompose /\ [][NextCompose]_vars

\* re-runs of one valid request
InitRerun == Init /\ req.project_path = AppAbs /\ req.framework = "fastapi"

SpecRerun == InitRerun /\ [][NextRerun]_vars

-----------------------------------------------------------------------------
(* Properties *)

Idx == 1..Len(log)

Ran(op) == \E i \in Idx : log[i].op = op

\* an external command of the run exited with a non-zero code
CommandFailed(i) == log[i].kind = "cmd" /\ log[i].rc > 0

ServiceCommands ==
    { "sudo systemctl daemon-reload", "sudo systemctl enable",
      "sudo systemctl restart", "sudo systemctl status" }

ProxyCommands ==
    { "sudo test -d live", "sudo mv nginx", "sudo chmod 644 nginx", "sudo ln -s",
      "sudo nginx -t", "sudo systemctl reload nginx", "sudo certbot --nginx" }

\* nothing was written in the run: no temporary file, no unit, no proxy config
NoFileWritten ==
    /\ \A i \in Idx : log[i].kind # "file"
    /\ ~Ran("sudo mv unit") /\ ~Ran("sudo mv nginx")
    /\ host.unit = <<>> /\ host.nginx = <<>> /\ host.tmp = 0

\* every non-blank, non-comment line of the environment file read holds an "="
EnvWellFormed ==
    has_env_file(req, host) =>
        \A k \in DOMAIN host.envfile.lines :
            LET l == host.envfile.lines[k]
            IN  strip(l) # <<>> /\ ~startswith(l, "#") => "=" \in Range(l)

StepOrder ==
    << "validate", "check-deps", "resolve-identity", "build-unit", "write-unit",
       "build-proxy", "write-proxy", "enable-site", "validate-proxy-syntax",
       "reload-proxy", "acquire-cert", "enable-and-start-service", "report-status" >>

Rank(step) == CHOOSE k \in DOMAIN StepOrder : StepOrder[k] = step

ProxySteps ==
    { "build-proxy", "write-proxy", "enable-site", "validate-proxy-syntax",
      "reload-proxy", "acquire-cert" }

\* the events of the orchestration steps
StepIdx == {i \in Idx : log[i].step \in Range(StepOrder)}

\* the steps that every run reaching a later step must have completed before
RequiredStep(k) ==
    /\ StepOrder[k] # "acquire-cert"
    /\ StepOrder[k] \in ProxySteps => req.domain # ""
    /\ StepOrder[k] = "check-deps" => entry = "cli"

\* C1: the steps of a run execute in the order validate, check-deps,
\* resolve-identity, build-unit, write-unit, (with a domain: build-proxy,
\* write-proxy, enable-site, validate-proxy-syntax, reload-proxy, and without a
\* certificate acquire-cert), enable-and-start-service, report-status: no event
\* of an earlier step follows an event of a later one, a step runs only after
\* every step before it has run, no proxy or certificate step runs without a
\* domain, and the certificate is acquired only when the TLS variant was not
\* selected.
C1_StepOrder ==
    /\ \A i, j \in StepIdx : i < j => Rank(log[i].step) <= Rank(log[j].step)
    /\ \A i \in StepIdx : \A k \in 1..(Rank(log[i].step) - 1) :
          RequiredStep(k) => \E j \in StepIdx : j < i /\ log[j].step = StepOrder[k]
    /\ req.domain = "" => \A i \in StepIdx : log[i].step \notin ProxySteps
    /\ \A i \in StepIdx : log[i].step = "acquire-cert" =>
          \E j \in StepIdx : /\ j < i /\ log[j].step = "build-proxy"
                             /\ log[j].arg \in {<<"NGINX_TEMPLATE">>,
                                                <<"NGINX_FRONTEND_TEMPLATE">>}

\* C2 as stated: whenever an external command of an orchestration step exits
\* non-zero, the run aborts with an error at that command: it is the last event
\* of the run.
C2_AnyCommandFailureAborts ==
    \A i \in Idx : CommandFailed(i) =>
        i = Len(log) /\ pc = "exit" /\ err # "none" /\ exitcode = 1

\* C2 as amended: whenever a command run through the command executor
\* (_run_command) or one of the two package-manager commands of the dependency
\* check exits non-zero, the run aborts with an error at that command: it is
\* the last event of the run and the run ends with code 1.  (The presence
\* probes nginx -v, certbot --version and dpkg -l are not covered.)
C2_CheckedCommandFailureAborts ==
    \A i \in Idx :
        CommandFailed(i) /\ log[i].op \in ExecutorCommands \cup InstallCommands =>
            i = Len(log) /\ pc = "exit" /\ err # "none" /\ exitcode = 1

\* a run in which id -gn, the second command of resolve-identity, failed
C2_Witness ==
    /\ pc = "exit"
    /\ \E i \in Idx : log[i].op = "id -gn" /\ log[i].rc > 0

\* the preconditions of a successful run through main
Preconditions ==
    /\ req.framework \in SupportedFrameworks
    /\ isdir(req.project_path)
    /\ isdir(join(req.project_path, req.venv_name))
    /\ deps.called /\ deps.ret
    /\ EnvWellFormed

\* C3: main ends with code 0 exactly when the run completed report-status, and
\* when the preconditions hold (supported framework, existing project path and
\* virtual environment, dependency check true) and every external command of
\* the run exited zero, the run reaches report-status and ends with code 0.
C3_ExitCodes ==
    entry = "cli" /\ pc = "exit" =>
        /\ exitcode = 0 <=> \E i \in Idx : log[i].step = "report-status" /\ log[i].rc = 0
        /\ (Preconditions /\ \A i \in Idx : log[i].kind = "cmd" => log[i].rc = 0)
              => exitcode = 0 /\ Ran("sudo systemctl status")

Contains(text, s) == \E i \in DOMAIN text : text[i] = s

\* the variant of the decision table
TableVariant(frontend, certificate) ==
    IF frontend
    THEN IF certificate THEN "NGINX_FRONTEND_SSL_TEMPLATE" ELSE "NGINX_FRONTEND_TEMPLATE"
    ELSE IF certificate THEN "NGINX_SSL_TEMPLATE" ELSE "NGINX_TEMPLATE"

\* C4: for a request with a domain the Proxy Composer renders the variant of
\* the decision table for (has frontend, certificate present), and the text
\* holds the domain, the port and, in the frontend variants, the frontend path,
\* the API prefix and the frontend prefix as they were given.
C4_ProxyVariant ==
    out.kind = "proxy" =>
        /\ out.proxy.res.ok
        /\ out.proxy.variant = TableVariant(has_frontend(req), req.domain \in host.certs)
        /\ Contains(out.proxy.res.text, req.domain)
        /\ Contains(out.proxy.res.text, IntToStr(req.port))
        /\ has_frontend(req) =>
              /\ Contains(out.proxy.res.text, PathStr(req.frontend_path))
              /\ Contains(out.proxy.res.text, req.api_url_prefix)
              /\ Contains(out.proxy.res.text, req.frontend_url_prefix)

\* C5: when the same valid request is run twice and no command fails in either
\* run, the second run leaves the unit file (and, with a domain, the proxy
\* config) written with the content the first run wrote, and the service in
\* the same, running, state.
C5_Idempotent ==
    ( /\ run = 2 /\ pc = "exit"
      /\ EnvWellFormed
      /\ ~first.failed /\ first.err # "dependency check failed"
      /\ err # "dependency check failed"
      /\ \A i \in Idx : ~CommandFailed(i) )
    => /\ host.unit # <<>> /\ host.unit = first.host.unit
       /\ req.domain # "" => host.nginx # <<>> /\ host.nginx = first.host.nginx
       /\ host.svc.active /\ host.svc = first.host.svc

\* C6: a run with a framework outside fastapi, flask, django ends in failure;
\* it writes no file and issues no service-management command; the error is
\* the unsupported-framework error whenever the run got as far as selecting
\* the launch command, and argparse's rejection of the choice through main.
C6_UnsupportedFramework ==
    req.framework \notin SupportedFrameworks =>
        /\ NoFileWritten
        /\ \A i \in Idx : log[i].op \notin ServiceCommands
        /\ pc = "exit" => exitcode # 0 /\ err # "none"
        /\ Ran("_get_exec_start") => err = "ValueError: unsupported framework"
        /\ entry = "cli" /\ pc = "exit" => err = "SystemExit: invalid choice"

\* deploy_api called with framework rails on an existing project
C6_Witness ==
    /\ req.framework = "rails" /\ entry = "api"
    /\ pc = "exit" /\ Ran("_get_exec_start")
    /\ err = "ValueError: unsupported framework"

\* the launch command line of the documentation, word by word
LaunchCommand(r) ==
    LET venv == PathStr(join(abspath(r.project_path), r.venv_name))
        bind == "0.0.0.0:" \o IntToStr(r.port)
    IN  IF r.framework = "fastapi"
        THEN Join(<<venv \o "/bin/uvicorn", "main:app", "--host", "0.0.0.0",
                    "--port", IntToStr(r.port), "--workers", IntToStr(r.workers),
                    "--timeout-keep-alive", IntToStr(r.timeout)>>, " ")
        ELSE Join(<<venv \o "/bin/gunicorn", "-w", IntToStr(r.workers), "-b", bind,
                    "-t", IntToStr(r.timeout),
                    IF r.framework = "flask" THEN "app:app"
                    ELSE basename(abspath(r.project_path)) \o ".wsgi:application">>, " ")

\* the launch command line built for a supported framework is the documented one
LaunchCommandMatches ==
    out.kind = "unit" /\ req.framework \in SupportedFrameworks /\ EnvWellFormed =>
        out.unit.exec_start = LaunchCommand(req)

\* C7: for a supported framework (and an environment file that can be read) the
\* launch command line is the documented pattern with port, worker count and
\* timeout as given, and the rendered unit holds it as its ExecStart.
C7_LaunchCommand ==
    /\ LaunchCommandMatches
    /\ out.kind = "unit" /\ req.framework \in SupportedFrameworks /\ EnvWellFormed =>
          /\ out.unit.err = "none"
          /\ \E i \in DOMAIN out.unit.text :
                /\ i > 1
                /\ out.unit.text[i - 1] = "\nExecStart="
                /\ out.unit.text[i] = LaunchCommand(req)

\* the lines that are neither blank nor comments starting with "#"
Kept(lines) == SelectSeq(lines, LAMBDA l : strip(l) # <<>> /\ ~(l # <<>> /\ l[1] = "#"))

\* C8: the directives read from an environment file are, in file order, one per
\* line that is neither blank nor a comment; the key has no "=" in it and key,
\* "=" and value together are the line (without the surrounding whitespace and
\* the line terminator), so the line is split at its first "=" only.
C8_EnvDirectives ==
    out.kind = "env" /\ has_env_file(req, host) =>
        LET ds == out.envs.directives
            kept == Kept(host.envfile.lines)
        IN  /\ out.envs.ok
            /\ Len(ds) = Len(kept)
            /\ \A k \in 1..Len(ds) :
                  /\ "=" \notin Range(ds[k].key)
                  /\ ds[k].key \o <<"=">> \o ds[k].value = strip(kept[k])

InstallIdx == {i \in Idx : log[i].op = "sudo apt-get install"}

PromptIdx == {i \in Idx : log[i].kind = "prompt"}

\* the user answered y (in either case, with or without blanks around it)
Affirmed == \E i \in PromptIdx : log[i].arg \in {<<"y">>, <<" Y">>}

\* C9: the dependency check probes each of the three packages once and
\* collects exactly those that are not present; it returns true exactly when
\* none is missing or the missing ones were installed after the user affirmed,
\* and false when the user declined or an install command failed; the missing
\* packages are installed by one install command naming all of them; the
\* prompt is issued once, and only when a package is missing.
C9_DependencyCheck ==
    deps.called =>
        /\ Range(deps.missing) = Range(RequiredPackages) \ deps.before
        /\ Len(deps.missing) = Cardinality(Range(deps.missing))
        /\ \A op \in {"nginx -v", "certbot --version", "dpkg -l"} :
              Cardinality({i \in Idx : log[i].op = op}) = 1
        /\ deps.ret <=> \/ deps.missing = <<>>
                        \/ Affirmed /\ \E i \in InstallIdx : log[i].rc = 0
        /\ ~deps.ret <=> \/ deps.missing # <<>> /\ ~Affirmed
                         \/ \E i \in Idx : /\ log[i].op \in InstallCommands
                                           /\ log[i].rc # 0
        /\ Cardinality(InstallIdx) <= 1
        /\ \A i \in InstallIdx : log[i].arg = deps.missing /\ Affirmed
        /\ deps.ret /\ deps.missing # <<>> =>
              InstallIdx # {} /\ Range(RequiredPackages) \subseteq host.pkgs
        /\ Cardinality(PromptIdx) <= 1
        /\ deps.prompted <=> PromptIdx # {}
        /\ deps.prompted <=> deps.missing # <<>>

\* two packages were missing and the check installed them
C9_Witness ==
    /\ deps.called /\ deps.ret /\ Len(deps.missing) = 2
    /\ \E i \in InstallIdx : log[i].rc = 0 /\ log[i].arg = deps.missing

\* C10: in a run whose project path is no directory or lacks the virtual
\* environment directory, no unit file or proxy config is written, no package
\* is installed and no service-management or proxy command is issued.
C10_ValidationFirst ==
    (~isdir(req.project_path) \/ ~isdir(join(req.project_path, req.venv_name))) =>
        /\ NoFileWritten
        /\ InstallIdx = {}
        /\ \A i \in Idx : log[i].op \notin ServiceCommands \cup ProxyCommands

\* the placeholders a template's text references
Referenced(tpl) == {tpl[k].v : k \in {j \in DOMAIN tpl : tpl[j].k = "var"}}

ProxyTemplates ==
    [NGINX_TEMPLATE |-> NGINX_TEMPLATE,
     NGINX_SSL_TEMPLATE |-> NGINX_SSL_TEMPLATE,
     NGINX_FRONTEND_TEMPLATE |-> NGINX_FRONTEND_TEMPLATE,
     NGINX_FRONTEND_SSL_TEMPLATE |-> NGINX_FRONTEND_SSL_TEMPLATE]

\* the names of the keys passed for the unit and for each proxy variant
UnitKeyNames == DOMAIN UnitKeys(req, "", "", "", <<>>)

ProxyKeyNames(variant) ==
    IF variant \in {"NGINX_FRONTEND_TEMPLATE", "NGINX_FRONTEND_SSL_TEMPLATE"}
    THEN DOMAIN FrontendKeys(req) ELSE DOMAIN ApiKeys(req)

\* the rendering event i is of a template that references a key not supplied
MissingKeyAt(i) ==
    /\ log[i].op = "substitute"
    /\ IF log[i].step = "build-unit"
       THEN ~(Referenced(SYSTEMD_TEMPLATE) \subseteq UnitKeyNames)
       ELSE ~(Referenced(ProxyTemplates[log[i].arg[1]]) \subseteq ProxyKeyNames(log[i].arg[1]))

\* C11: a rendering of a template that references a key not supplied fails
\* with the missing-key error and is the last event of the run: the run ends
\* in failure, the file the template was rendered for is not written (no
\* temporary file is created, nothing is moved to the system path) and no
\* later step runs.
C11_MissingKeyAborts ==
    \A i \in Idx : MissingKeyAt(i) =>
        /\ log[i].rc = 1
        /\ i = Len(log)
        /\ err = "KeyError" /\ pc = "exit" /\ exitcode = 1
        /\ host.tmp = 0
        /\ log[i].step = "build-unit" =>
              /\ \A j \in Idx : log[j].kind # "file"
              /\ ~Ran("sudo mv unit") /\ host.unit = <<>>
        /\ log[i].step = "build-proxy" =>
              /\ \A j \in Idx : log[j].kind = "file" => log[j].step # "write-proxy"
              /\ ~Ran("sudo mv nginx") /\ host.nginx = <<>>

\* a run with a domain that ended at the rendering of the unit, before the
\* write of the unit and all the proxy steps
C11_Witness ==
    /\ pc = "exit" /\ err = "KeyError" /\ req.domain # ""
    /\ req.framework \in SupportedFrameworks
    /\ \E i \in Idx : MissingKeyAt(i) /\ log[i].step = "build-unit" /\ log[i].rc = 1

\* C12: every placeholder of the unit template and of the selected proxy
\* variant is among the keys passed to its substitute call, so for a valid
\* request (supported framework, readable environment file) the rendering of
\* the unit and of the proxy config does not fail with a missing key and
\* yields the text.
C12_PlaceholdersSupplied ==
    /\ out.kind = "unit" =>
          /\ Referenced(SYSTEMD_TEMPLATE) \subseteq UnitKeyNames
          /\ req.framework \in SupportedFrameworks /\ EnvWellFormed =>
                out.unit.err = "none" /\ out.unit.text # <<>>
    /\ out.kind = "proxy" =>
          /\ Referenced(ProxyTemplates[out.proxy.variant])
                \subseteq ProxyKeyNames(out.proxy.variant)
          /\ out.proxy.res.ok /\ out.proxy.res.text # <<>>

=============================================================================
